---------------------------- MODULE Spec2Model ----------------------------
(***************************************************************************)
(* ActionUnitManager: the subscription access gate                         *)
(* (actionunit/middleware.py, SubscriptionMiddleware.process_view) and the *)
(* subscription lifecycle driven by the API views of actionunit/views.py   *)
(* (church_signup, create_subscription, initiate_payment, verify_payment)  *)
(* and by the Django admin console (actionunit/admin.py).                  *)
(*                                                                         *)
(* A request is handled in two steps, as Django does: process_view runs    *)
(* first and either answers the request itself (a denial) or lets it go on *)
(* to the view routed for the path; the view then runs and answers.        *)
(* Requests are handled one at a time (spec section 5).  Dates are day     *)
(* numbers; request.path is the sequence of its segments, so that          *)
(* '/api/auth/login/' is <<"api", "auth", "login">> and str.startswith is  *)
(* a prefix test on sequences.  request.user is the user object the        *)
(* authentication layer attached to the request; the gate and the view's   *)
(* permission class see the same user.                                     *)
(***************************************************************************)
EXTENDS Integers, Sequences, FiniteSets, TLC

---------------------------------------------------------------------------
(* Bounds of the model *)

\* today ranges over 0..MaxDay; dates typed in the admin console too
MaxDay == 1
\* number of ActionUnitClass rows a church may reach in the model
MaxClasses == 1
\* number of Offering rows the offerings table may reach in the model
MaxOfferings == 2

---------------------------------------------------------------------------
(* Program constants *)

\* timedelta(days=30) of the free trial created at signup
SignupTrialDays == 30
\* timedelta(days=60) of create_subscription
CreateTrialDays == 60
\* plan durations of initiate_payment / verify_payment
MonthlyDays == 30
QuarterlyDays == 90
AnnualDays == 365

\* Subscription.PLAN_CHOICES
PLAN_CHOICES == {"free_trial", "monthly", "quarterly", "annual"}
\* Subscription.STATUS_CHOICES
STATUS_CHOICES == {"trialing", "active", "past_due", "canceled", "unpaid"}

---------------------------------------------------------------------------
(* Tenants, users, requests *)

Churches == {"c1"}
\* CustomUser.church is nullable: None
NoChurch == "None"
\* a DateField left null
NoDate == -1
\* request.data.get('plan') when the body carries no plan
NoPlan == "None"

\* the users a request may carry: AnonymousUser, a system admin (church is
\* null), and one user per church
UserNames == {"anon", "sysadmin"} \cup {"user_" \o c : c \in Churches}

is_authenticated(u) == u # "anon"

\* hasattr(request.user, 'church'): church is a model field of CustomUser, so
\* every CustomUser has the attribute (its value may be None); AnonymousUser
\* has no such attribute
has_church_attr(u) == u # "anon"

\* request.user.church
church_of(u) ==
    IF \E c \in Churches : u = "user_" \o c
    THEN CHOOSE c \in Churches : u = "user_" \o c
    ELSE NoChurch

Methods == {"GET", "POST", "PUT"}

AuthLogin == <<"api", "auth", "login">>
TokenRefresh == <<"api", "auth", "token", "refresh">>
ChurchRegister == <<"api", "church", "register">>
TokenVerify == <<"api", "token", "verify">>
StaticFile == <<"static", "app.js">>
AdminConsole == <<"admin", "actionunit">>
ClassesPath == <<"api", "classes">>
SubscriptionStatusPath == <<"api", "subscription", "status">>
SubscriptionCreatePath == <<"api", "subscription", "create">>
InitiatePaymentPath == <<"api", "subscription", "initiate-payment">>
VerifyPaymentPath == <<"api", "subscription", "verify-payment">>

Paths ==
    { AuthLogin, TokenRefresh, ChurchRegister, TokenVerify, StaticFile,
      AdminConsole, ClassesPath, SubscriptionStatusPath,
      SubscriptionCreatePath, InitiatePaymentPath, VerifyPaymentPath }

\* the plan values a request body may carry: the three paid plans, an
\* unrecognised one, and none
PlanInputs == {"monthly", "quarterly", "annual", "weekly", NoPlan}

\* str.startswith
StartsWith(path, prefix) ==
    /\ Len(path) >= Len(prefix)
    /\ SubSeq(path, 1, Len(prefix)) = prefix

---------------------------------------------------------------------------
VARIABLES
    today,          \* timezone.now().date()
    churches,       \* the Church rows
    subscriptions,  \* the Subscription rows
    classes,        \* number of ActionUnitClass rows of each church
    stage,          \* "idle", "view" (gate passed, view to run), "done"
    request,        \* the request being handled
    gate,           \* what process_view returned for it
    response,       \* the response sent for it
    pc,             \* interleaved requests: the statement each one is at
    users,          \* the CustomUser rows
    last_delete,    \* the last CustomUser.delete() call and how it ended
    attendances,    \* the Attendance rows
    offerings,      \* the Offering rows
    officers,       \* the users whose is_officer flag is set
    class_teachers, \* the ClassTeacher rows
    quarterly_books,\* the QuarterlyBook rows
    book_orders,    \* the BookOrder rows
    order_items     \* the OrderItem rows

\* the tables and request state of the subscription gate
gate_vars == <<today, churches, subscriptions, classes, stage, request, gate, response>>
\* the user, attendance and offering tables
tenant_vars == <<users, last_delete, attendances, offerings>>

\* the officer flags and teacher assignments
roster_vars == <<officers, class_teachers>>
\* the quarterly books and the book orders
order_vars == <<quarterly_books, book_orders, order_items>>

vars == <<today, churches, subscriptions, classes, stage, request, gate, response,
          pc, users, last_delete, attendances, offerings,
          officers, class_teachers, quarterly_books, book_orders, order_items>>

NoRequest == [method |-> "None", path |-> <<>>, user |-> "anon",
              plan |-> NoPlan, church |-> NoChurch]
NoResponse == [status |-> 0, code |-> "None", by |-> "None"]

\* the requests that run interleaved
Procs == {"p1", "p2"}
NotRunning == [step |-> "idle", church |-> NoChurch]

\* the churches, users, classes and class members of the user and
\* attendance tables
ChurchIds == {"A", "B"}
UserIds == {"u1", "u2", "u3"}
NoUser == [church |-> NoChurch, role |-> "None", is_active |-> FALSE]
NoDelete == [user |-> "None", raised |-> FALSE]

\* no interleaved request is running
PcInit == pc = [p \in Procs |-> NotRunning]

\* empty user, attendance and offering tables
TenantInit ==
    /\ users = [u \in UserIds |-> NoUser]
    /\ last_delete = NoDelete
    /\ attendances = {}
    /\ offerings = {}

\* no officer, no teacher assignment
RosterInit ==
    /\ officers = {}
    /\ class_teachers = {}

\* no quarterly book, no book order
OrderInit ==
    /\ quarterly_books = {}
    /\ book_orders = {}
    /\ order_items = {}

\* process_view returning None
None == [status |-> 0, code |-> "None"]
\* JsonResponse({..., 'code': code}, status=402)
JsonResponse402(code) == [status |-> 402, code |-> code]
\* an exception that leaves process_view or a view: Django answers 500
ServerError(exc) == [status |-> 500, code |-> exc]

\* Subscription.objects.filter(church=c)
SubscriptionsOf(subs, c) == {s \in subs : s.church = c}
\* church.subscription / Subscription.objects.get(church=c); raises
\* Subscription.DoesNotExist when SubscriptionsOf is empty
SubscriptionOf(subs, c) == CHOOSE s \in subs : s.church = c

---------------------------------------------------------------------------
(* SubscriptionMiddleware.process_view *)

\* lines 77-82: the paths the gate skips
IsBypassedPath(path) ==
    \/ StartsWith(path, <<"api", "auth">>)
    \/ StartsWith(path, <<"static">>)
    \/ StartsWith(path, <<"admin">>)

\* variants of SubscriptionDecision with the checks reordered or changed
SubscriptionDecision_StatusBeforePeriod(subscription, day) ==
    IF subscription.status \in {"canceled", "unpaid"}
    THEN JsonResponse402("SUBSCRIPTION_TERMINATED")
    ELSE IF subscription.status = "past_due"
    THEN JsonResponse402("PAYMENT_PAST_DUE")
    ELSE IF subscription.status \in {"active", "trialing"}
    THEN None
    ELSE IF subscription.current_period_end < day
    THEN JsonResponse402("SUBSCRIPTION_EXPIRED")
    ELSE JsonResponse402("SUBSCRIPTION_ACCESS_DENIED")

SubscriptionDecision_PeriodFirst(subscription, day) ==
    IF subscription.current_period_end < day
    THEN JsonResponse402("SUBSCRIPTION_EXPIRED")
    ELSE IF subscription.status \in {"canceled", "unpaid"}
    THEN JsonResponse402("SUBSCRIPTION_TERMINATED")
    ELSE IF subscription.status = "past_due"
    THEN JsonResponse402("PAYMENT_PAST_DUE")
    ELSE IF subscription.status \in {"active", "trialing"}
    THEN None
    ELSE JsonResponse402("SUBSCRIPTION_ACCESS_DENIED")

SubscriptionDecision_NoPastDue(subscription, day) ==
    IF subscription.status \in {"canceled", "unpaid"}
    THEN JsonResponse402("SUBSCRIPTION_TERMINATED")
    ELSE IF subscription.current_period_end < day
    THEN JsonResponse402("SUBSCRIPTION_EXPIRED")
    ELSE IF subscription.status \in {"active", "trialing"}
    THEN None
    ELSE JsonResponse402("SUBSCRIPTION_ACCESS_DENIED")

SubscriptionDecision_InclusiveEnd(subscription, day) ==
    IF subscription.status \in {"canceled", "unpaid"}
    THEN JsonResponse402("SUBSCRIPTION_TERMINATED")
    ELSE IF subscription.status = "past_due"
    THEN JsonResponse402("PAYMENT_PAST_DUE")
    ELSE IF subscription.current_period_end <= day
    THEN JsonResponse402("SUBSCRIPTION_EXPIRED")
    ELSE IF subscription.status \in {"active", "trialing"}
    THEN None
    ELSE JsonResponse402("SUBSCRIPTION_ACCESS_DENIED")

SubscriptionDecision_DefaultAllow(subscription, day) ==
    IF subscription.status \in {"canceled", "unpaid"}
    THEN JsonResponse402("SUBSCRIPTION_TERMINATED")
    ELSE IF subscription.status = "past_due"
    THEN JsonResponse402("PAYMENT_PAST_DUE")
    ELSE IF subscription.current_period_end < day
    THEN JsonResponse402("SUBSCRIPTION_EXPIRED")
    ELSE None

SubscriptionDecision_ActiveOnly(subscription, day) ==
    IF subscription.status \in {"canceled", "unpaid"}
    THEN JsonResponse402("SUBSCRIPTION_TERMINATED")
    ELSE IF subscription.status = "past_due"
    THEN JsonResponse402("PAYMENT_PAST_DUE")
    ELSE IF subscription.current_period_end < day
    THEN JsonResponse402("SUBSCRIPTION_EXPIRED")
    ELSE IF subscription.status = "active"
    THEN None
    ELSE JsonResponse402("SUBSCRIPTION_ACCESS_DENIED")

SubscriptionDecision_GracePeriod(subscription, day) ==
    IF subscription.status \in {"canceled", "unpaid"}
    THEN JsonResponse402("SUBSCRIPTION_TERMINATED")
    ELSE IF /\ subscription.status = "past_due"
            /\ subscription.grace_period_end < day
    THEN JsonResponse402("PAYMENT_PAST_DUE")
    ELSE IF subscription.status = "past_due"
    THEN None
    ELSE IF subscription.current_period_end < day
    THEN JsonResponse402("SUBSCRIPTION_EXPIRED")
    ELSE IF subscription.status \in {"active", "trialing"}
    THEN None
    ELSE JsonResponse402("SUBSCRIPTION_ACCESS_DENIED")

\* lines 98-133 and the fall-through to 142-149: the decision for a
\* subscription row that was found
SubscriptionDecision(subscription, day) ==
    IF subscription.status \in {"canceled", "unpaid"}
    THEN JsonResponse402("SUBSCRIPTION_TERMINATED")
    ELSE IF subscription.status = "past_due"
    THEN JsonResponse402("PAYMENT_PAST_DUE")
    ELSE IF subscription.current_period_end < day
    THEN JsonResponse402("SUBSCRIPTION_EXPIRED")
    ELSE IF subscription.status \in {"active", "trialing"}
    THEN None
    ELSE JsonResponse402("SUBSCRIPTION_ACCESS_DENIED")

\* variant of SubscriptionLookup: a missing row falls to the default deny
SubscriptionLookup_DenyMissing(user, subs, day) ==
    IF church_of(user) = NoChurch
    THEN ServerError("AttributeError")
    ELSE IF SubscriptionsOf(subs, church_of(user)) = {}
    THEN JsonResponse402("SUBSCRIPTION_ACCESS_DENIED")
    ELSE SubscriptionDecision(SubscriptionOf(subs, church_of(user)), day)

\* lines 94-96 and 135-139: request.user.church.subscription.  With church
\* None the attribute access raises AttributeError, which the except clause
\* (Subscription.DoesNotExist) does not catch
SubscriptionLookup(user, subs, day) ==
    IF church_of(user) = NoChurch
    THEN ServerError("AttributeError")
    ELSE IF SubscriptionsOf(subs, church_of(user)) = {}
    THEN None
    ELSE SubscriptionDecision(SubscriptionOf(subs, church_of(user)), day)

\* variant of process_view: the method is not looked at
process_view_NoGetBypass(req, subs, day) ==
    IF IsBypassedPath(req.path)
    THEN None
    ELSE IF ~(is_authenticated(req.user) /\ has_church_attr(req.user))
    THEN None
    ELSE SubscriptionLookup(req.user, subs, day)

\* lines 59-149
process_view(req, subs, day) ==
    IF IsBypassedPath(req.path)
    THEN None
    ELSE IF req.method = "GET"
    THEN None
    ELSE IF ~(is_authenticated(req.user) /\ has_church_attr(req.user))
    THEN None
    ELSE SubscriptionLookup(req.user, subs, day)

---------------------------------------------------------------------------
(* The database *)

\* the columns of the subscriptions table
SubscriptionRow(c, plan, status, trial_end, period_end, grace_end) ==
    [church |-> c, plan |-> plan, status |-> status,
     trial_end_date |-> trial_end, current_period_end |-> period_end,
     grace_period_end |-> grace_end]

\* variant of InsertAllowed: church declared as a ForeignKey, not unique
InsertAllowed_NotUnique(subs, row) ==
    row.church # NoChurch

\* INSERT into subscriptions: church is a OneToOneField (NOT NULL, UNIQUE);
\* a row that breaks either constraint raises IntegrityError
InsertAllowed(subs, row) ==
    /\ row.church # NoChurch
    /\ SubscriptionsOf(subs, row.church) = {}

\* UPDATE of one subscriptions row (Model.save()): plan is a CharField
\* without null=True, so a None plan raises IntegrityError
SaveAllowed(row) == row.plan # NoPlan

---------------------------------------------------------------------------
(* The views *)

ViewResponse(status, code) == [status |-> status, code |-> code, by |-> "view"]

\* @api_view([...]) with @permission_classes([IsAuthenticated]): the
\* permission is checked first, then the method
Refused(req, methods, authenticated_only) ==
    IF authenticated_only /\ ~is_authenticated(req.user)
    THEN ViewResponse(401, "not_authenticated")
    ELSE IF req.method \notin methods
    THEN ViewResponse(405, "method_not_allowed")
    ELSE NoResponse

\* variant of PeriodEnd: the quarterly plan given the monthly duration
PeriodEnd_QuarterlyAsMonthly(plan, day) ==
    IF plan = "monthly" THEN day + MonthlyDays
    ELSE IF plan = "quarterly" THEN day + MonthlyDays
    ELSE day + AnnualDays

\* period_end of initiate_payment and verify_payment: any plan that is
\* neither monthly nor quarterly takes the annual branch
PeriodEnd(plan, day) ==
    IF plan = "monthly" THEN day + MonthlyDays
    ELSE IF plan = "quarterly" THEN day + QuarterlyDays
    ELSE day + AnnualDays

\* variant of SignupSubscription: the trial given the 60 days of
\* create_subscription
SignupSubscription_SixtyDays(c, day) ==
    SubscriptionRow(c, "free_trial", "trialing",
                    day + CreateTrialDays, day + CreateTrialDays, NoDate)

\* ChurchSignupSerializer.create: the free-trial row of a new church
SignupSubscription(c, day) ==
    SubscriptionRow(c, "free_trial", "trialing",
                    day + SignupTrialDays, day + SignupTrialDays, NoDate)

\* create_subscription: SubscriptionCreateSerializer keeps only plan,
\* trial_end_date and current_period_end of subscription_data; church is
\* dropped and status takes the column default
CreateSubscriptionRow(c, day) ==
    SubscriptionRow(NoChurch, "free_trial", "trialing",
                    day + CreateTrialDays, day + CreateTrialDays, NoDate)

\* variant of VerifiedSubscription: a plan that is not a paid plan leaves
\* the subscription unpaid
VerifiedSubscription_UnknownPlanUnpaid(subscription, plan, day) ==
    IF plan \in {"monthly", "quarterly", "annual"}
    THEN [subscription EXCEPT !.plan = plan, !.status = "active",
                              !.current_period_end = PeriodEnd(plan, day)]
    ELSE [subscription EXCEPT !.plan = plan, !.status = "unpaid"]

\* verify_payment: the row as saved
VerifiedSubscription(subscription, plan, day) ==
    [subscription EXCEPT !.plan = plan, !.status = "active",
                         !.current_period_end = PeriodEnd(plan, day)]

\* variant of get_is_active: the last day of the period not counted
get_is_active_Strict(obj, day) ==
    obj.status \in {"trialing", "active"} /\ obj.current_period_end > day

\* SubscriptionSerializer.get_is_active
get_is_active(obj, day) ==
    obj.status \in {"trialing", "active"} /\ obj.current_period_end >= day

---------------------------------------------------------------------------
(* Initial state: an empty database *)

Init ==
    /\ today = 0
    /\ churches = {}
    /\ subscriptions = {}
    /\ classes = [c \in Churches |-> 0]
    /\ stage = "idle"
    /\ request = NoRequest
    /\ gate = None
    /\ response = NoResponse
    /\ PcInit
    /\ TenantInit
    /\ RosterInit
    /\ OrderInit

\* the users that exist: a church's user exists once the church does
UserExists(u) == church_of(u) = NoChurch \/ church_of(u) \in churches

\* the requests of the model: a plan in the body of the payment requests, a
\* church in the body of the registration request
RequestsTo(paths, plans, chs) ==
    { [method |-> m, path |-> p, user |-> u, plan |-> pl, church |-> c] :
        m \in Methods, p \in paths, u \in UserNames, pl \in plans, c \in chs }

Requests ==
    RequestsTo(Paths \ {InitiatePaymentPath, VerifyPaymentPath, ChurchRegister},
               {NoPlan}, {NoChurch})
    \cup RequestsTo({InitiatePaymentPath, VerifyPaymentPath}, PlanInputs, {NoChurch})
    \cup RequestsTo({ChurchRegister}, {NoPlan}, Churches)

\* variant of ProcessView: the gate creates the missing subscription row
ProcessView_CreatesSubscription(req) ==
    /\ stage = "idle"
    /\ UserExists(req.user)
    /\ LET decision == process_view(req, subscriptions, today)
           c == church_of(req.user)
       IN
        /\ request' = req
        /\ gate' = decision
        /\ IF decision = None
           THEN stage' = "view" /\ response' = NoResponse
           ELSE /\ stage' = "done"
                /\ response' = [status |-> decision.status,
                                code |-> decision.code, by |-> "gate"]
        /\ IF c # NoChurch /\ SubscriptionsOf(subscriptions, c) = {}
           THEN subscriptions' = subscriptions \cup {SignupSubscription(c, today)}
           ELSE UNCHANGED subscriptions
    /\ UNCHANGED <<today, churches, classes>>
    /\ UNCHANGED <<pc, tenant_vars>>
    /\ UNCHANGED <<roster_vars, order_vars>>

\* A request arrives and the middleware chain calls process_view on it: a
\* response from process_view is the response of the request, None sends the
\* request on to its view
ProcessView(req) ==
    /\ stage = "idle"
    /\ UserExists(req.user)
    /\ LET decision == process_view(req, subscriptions, today) IN
        /\ (/\ decision = None
            /\ req.path = ClassesPath
            /\ req.method = "POST"
            /\ church_of(req.user) # NoChurch)
           => classes[church_of(req.user)] < MaxClasses
        /\ request' = req
        /\ gate' = decision
        /\ IF decision = None
           THEN stage' = "view" /\ response' = NoResponse
           ELSE /\ stage' = "done"
                /\ response' = [status |-> decision.status,
                                code |-> decision.code, by |-> "gate"]
    /\ UNCHANGED <<today, churches, subscriptions, classes>>
    /\ UNCHANGED <<pc, tenant_vars>>
    /\ UNCHANGED <<roster_vars, order_vars>>

\* views of other packages (login, simplejwt token views, static files, the
\* admin console pages): they answer and change nothing of this model
external_view ==
    /\ stage = "view"
    /\ request.path \in {AuthLogin, TokenRefresh, TokenVerify, StaticFile, AdminConsole}
    /\ response' = ViewResponse(200, "ok")
    /\ stage' = "done"
    /\ UNCHANGED <<today, churches, subscriptions, classes, request, gate>>
    /\ UNCHANGED <<pc, tenant_vars>>
    /\ UNCHANGED <<roster_vars, order_vars>>

church_signup ==
    /\ stage = "view"
    /\ request.path = ChurchRegister
    /\ LET refused == Refused(request, {"POST"}, FALSE)
           c == request.church
           row == SignupSubscription(c, today)
       IN
        IF refused # NoResponse
        THEN /\ response' = refused
             /\ UNCHANGED <<churches, subscriptions>>
        ELSE IF c = NoChurch \/ c \in churches
        THEN /\ response' = ViewResponse(400, "church_email")
             /\ UNCHANGED <<churches, subscriptions>>
        ELSE IF ~InsertAllowed(subscriptions, row)
        THEN /\ response' = ViewResponse(400, "IntegrityError")
             /\ churches' = churches \cup {c}
             /\ UNCHANGED subscriptions
        ELSE /\ response' = ViewResponse(201, "created")
             /\ churches' = churches \cup {c}
             /\ subscriptions' = subscriptions \cup {row}
    /\ stage' = "done"
    /\ UNCHANGED <<today, classes, request, gate>>
    /\ UNCHANGED <<pc, tenant_vars>>
    /\ UNCHANGED <<roster_vars, order_vars>>

classes_list_create ==
    /\ stage = "view"
    /\ request.path = ClassesPath
    /\ LET refused == Refused(request, {"GET", "POST"}, TRUE)
           c == church_of(request.user)
       IN
        IF refused # NoResponse
        THEN response' = refused /\ UNCHANGED classes
        ELSE IF request.method = "GET"
        THEN response' = ViewResponse(200, "ok") /\ UNCHANGED classes
        ELSE /\ response' = ViewResponse(201, "created")
             /\ classes' = [classes EXCEPT ![c] = @ + 1]
    /\ stage' = "done"
    /\ UNCHANGED <<today, churches, subscriptions, request, gate>>
    /\ UNCHANGED <<pc, tenant_vars>>
    /\ UNCHANGED <<roster_vars, order_vars>>

subscription_status ==
    /\ stage = "view"
    /\ request.path = SubscriptionStatusPath
    /\ LET refused == Refused(request, {"GET"}, TRUE) IN
        IF refused # NoResponse
        THEN response' = refused
        ELSE IF SubscriptionsOf(subscriptions, church_of(request.user)) = {}
        THEN response' = ViewResponse(404, "No subscription found for this church")
        ELSE response' = ViewResponse(200, "ok")
    /\ stage' = "done"
    /\ UNCHANGED <<today, churches, subscriptions, classes, request, gate>>
    /\ UNCHANGED <<pc, tenant_vars>>
    /\ UNCHANGED <<roster_vars, order_vars>>

create_subscription ==
    /\ stage = "view"
    /\ request.path = SubscriptionCreatePath
    /\ LET refused == Refused(request, {"POST"}, TRUE)
           c == church_of(request.user)
           row == CreateSubscriptionRow(c, today)
       IN
        IF refused # NoResponse
        THEN response' = refused /\ UNCHANGED subscriptions
        ELSE IF SubscriptionsOf(subscriptions, c) # {}
        THEN /\ response' = ViewResponse(400, "Subscription already exists for this church")
             /\ UNCHANGED subscriptions
        ELSE IF c = NoChurch
        THEN response' = ViewResponse(500, "AttributeError") /\ UNCHANGED subscriptions
        ELSE IF ~InsertAllowed(subscriptions, row)
        THEN response' = ViewResponse(500, "IntegrityError") /\ UNCHANGED subscriptions
        ELSE /\ response' = ViewResponse(201, "created")
             /\ subscriptions' = subscriptions \cup {row}
    /\ stage' = "done"
    /\ UNCHANGED <<today, churches, classes, request, gate>>
    /\ UNCHANGED <<pc, tenant_vars>>
    /\ UNCHANGED <<roster_vars, order_vars>>

\* variant of initiate_payment: a valid plan starts the paid period at once
initiate_payment_StartsPeriod ==
    /\ stage = "view"
    /\ request.path = InitiatePaymentPath
    /\ LET refused == Refused(request, {"POST"}, TRUE)
           c == church_of(request.user)
       IN
        IF refused # NoResponse
        THEN response' = refused /\ UNCHANGED subscriptions
        ELSE IF request.plan \notin {"monthly", "annual", "quarterly"}
        THEN response' = ViewResponse(400, "Invalid plan type") /\ UNCHANGED subscriptions
        ELSE /\ response' = ViewResponse(200, "ok")
             /\ subscriptions' =
                  {IF sub.church = c
                   THEN VerifiedSubscription(sub, request.plan, today)
                   ELSE sub : sub \in subscriptions}
    /\ stage' = "done"
    /\ UNCHANGED <<today, churches, classes, request, gate>>
    /\ UNCHANGED <<pc, tenant_vars>>
    /\ UNCHANGED <<roster_vars, order_vars>>

initiate_payment ==
    /\ stage = "view"
    /\ request.path = InitiatePaymentPath
    /\ LET refused == Refused(request, {"POST"}, TRUE) IN
        IF refused # NoResponse
        THEN response' = refused
        ELSE IF request.plan \notin {"monthly", "annual", "quarterly"}
        THEN response' = ViewResponse(400, "Invalid plan type")
        ELSE response' = ViewResponse(200, "ok")
    /\ stage' = "done"
    /\ UNCHANGED <<today, churches, subscriptions, classes, request, gate>>
    /\ UNCHANGED <<pc, tenant_vars>>
    /\ UNCHANGED <<roster_vars, order_vars>>

verify_payment ==
    /\ stage = "view"
    /\ request.path = VerifyPaymentPath
    /\ LET refused == Refused(request, {"POST"}, TRUE)
           c == church_of(request.user)
           subscription == SubscriptionOf(subscriptions, c)
           saved == VerifiedSubscription(subscription, request.plan, today)
       IN
        IF refused # NoResponse
        THEN response' = refused /\ UNCHANGED subscriptions
        ELSE IF SubscriptionsOf(subscriptions, c) = {}
        THEN /\ response' = ViewResponse(404, "Subscription not found")
             /\ UNCHANGED subscriptions
        ELSE IF ~SaveAllowed(saved)
        THEN response' = ViewResponse(500, "IntegrityError") /\ UNCHANGED subscriptions
        ELSE /\ response' = ViewResponse(200, "ok")
             /\ subscriptions' = (subscriptions \ {subscription}) \cup {saved}
    /\ stage' = "done"
    /\ UNCHANGED <<today, churches, classes, request, gate>>
    /\ UNCHANGED <<pc, tenant_vars>>
    /\ UNCHANGED <<roster_vars, order_vars>>

---------------------------------------------------------------------------
(* What happens between requests *)

\* SubscriptionMiddleware.__call__ returns the response: the request is over
call_return ==
    /\ stage = "done"
    /\ stage' = "idle"
    /\ request' = NoRequest
    /\ gate' = None
    /\ response' = NoResponse
    /\ UNCHANGED <<today, churches, subscriptions, classes>>
    /\ UNCHANGED <<pc, tenant_vars>>
    /\ UNCHANGED <<roster_vars, order_vars>>

\* a day passes
Tick ==
    /\ stage = "idle"
    /\ today < MaxDay
    /\ today' = today + 1
    /\ UNCHANGED <<churches, subscriptions, classes, stage, request, gate, response>>
    /\ UNCHANGED <<pc, tenant_vars>>
    /\ UNCHANGED <<roster_vars, order_vars>>

\* ChurchAdmin add form: a church created in the admin console has no
\* subscription row
AdminAddChurch(c) ==
    /\ stage = "idle"
    /\ c \notin churches
    /\ churches' = churches \cup {c}
    /\ UNCHANGED <<today, subscriptions, classes, stage, request, gate, response>>
    /\ UNCHANGED <<pc, tenant_vars>>
    /\ UNCHANGED <<roster_vars, order_vars>>

\* SubscriptionAdmin change form: status is one of STATUS_CHOICES (the form
\* validates choices), the dates are any dates
AdminChangeSubscription(c, status, period_end) ==
    /\ stage = "idle"
    /\ SubscriptionsOf(subscriptions, c) # {}
    /\ LET subscription == SubscriptionOf(subscriptions, c) IN
        subscriptions' = (subscriptions \ {subscription}) \cup
            {[subscription EXCEPT !.status = status,
                                  !.current_period_end = period_end]}
    /\ UNCHANGED <<today, churches, classes, stage, request, gate, response>>
    /\ UNCHANGED <<pc, tenant_vars>>
    /\ UNCHANGED <<roster_vars, order_vars>>

\* SubscriptionAdmin delete action
AdminDeleteSubscription(c) ==
    /\ stage = "idle"
    /\ SubscriptionsOf(subscriptions, c) # {}
    /\ subscriptions' = subscriptions \ SubscriptionsOf(subscriptions, c)
    /\ UNCHANGED <<today, churches, classes, stage, request, gate, response>>
    /\ UNCHANGED <<pc, tenant_vars>>
    /\ UNCHANGED <<roster_vars, order_vars>>

Next ==
    \/ \E req \in Requests : ProcessView(req)
    \/ external_view
    \/ church_signup
    \/ classes_list_create
    \/ subscription_status
    \/ create_subscription
    \/ initiate_payment
    \/ verify_payment
    \/ call_return
    \/ Tick
    \/ \E c \in Churches : AdminAddChurch(c)
    \/ \E c \in Churches, status \in STATUS_CHOICES, d \in 0..MaxDay :
          AdminChangeSubscription(c, status, d)
    \/ \E c \in Churches : AdminDeleteSubscription(c)

Spec == Init /\ [][Next]_vars

---------------------------------------------------------------------------
(* The gate over any stored row.  The subscriptions table has no CHECK      *)
(* constraint on status or plan and Model.save() does not validate         *)
(* choices, so a row written outside the admin forms (a shell, a data      *)
(* migration, a management command) may carry any status, plan and dates.  *)
(* InitRows starts from a registered church with no row or one such row.   *)

\* a status that is not one of STATUS_CHOICES
UndeclaredStatus == "paused"

RowInputs ==
    { SubscriptionRow(c, plan, status, trial_end, period_end, grace_end) :
        c \in Churches,
        plan \in {"free_trial", "monthly"},
        status \in STATUS_CHOICES \cup {UndeclaredStatus},
        trial_end \in 0..MaxDay,
        period_end \in 0..MaxDay,
        grace_end \in {NoDate} \cup 0..MaxDay }

InitRows ==
    /\ today \in 0..MaxDay
    /\ churches = Churches
    /\ subscriptions \in {{}} \cup {{row} : row \in RowInputs}
    /\ classes = [c \in Churches |-> 0]
    /\ stage = "idle"
    /\ request = NoRequest
    /\ gate = None
    /\ response = NoResponse
    /\ PcInit
    /\ TenantInit
    /\ RosterInit
    /\ OrderInit

NextRows ==
    \/ \E req \in Requests : ProcessView(req)
    \/ external_view
    \/ church_signup
    \/ classes_list_create
    \/ subscription_status
    \/ create_subscription
    \/ initiate_payment
    \/ verify_payment
    \/ call_return
    \/ Tick

SpecRows == InitRows /\ [][NextRows]_vars

---------------------------------------------------------------------------
(* The API alone: an empty database and the requests of the API, no admin  *)
(* console.                                                                *)

SpecApi == Init /\ [][NextRows]_vars

---------------------------------------------------------------------------
(* The free trial over its whole length: a church signs up and its users   *)
(* send requests while the days pass beyond the end of the trial.          *)

\* the last day of the trial model: past the end of a trial started on
\* any of the days 0..MaxDay
TrialHorizon == MaxDay + SignupTrialDays + 1

\* a day passes
DayPasses ==
    /\ stage = "idle"
    /\ today < TrialHorizon
    /\ today' = today + 1
    /\ UNCHANGED <<churches, subscriptions, classes, stage, request, gate, response>>
    /\ UNCHANGED <<pc, tenant_vars>>
    /\ UNCHANGED <<roster_vars, order_vars>>

TrialRequests ==
    RequestsTo({ClassesPath}, {NoPlan}, {NoChurch})
    \cup RequestsTo({ChurchRegister}, {NoPlan}, Churches)

NextTrial ==
    \/ \E req \in TrialRequests : ProcessView(req)
    \/ church_signup
    \/ classes_list_create
    \/ call_return
    \/ DayPasses

SpecTrial == Init /\ [][NextTrial]_vars

---------------------------------------------------------------------------
(* Interleaved requests.  Neither church_signup nor create_subscription    *)
(* runs in a transaction, so each of their database statements is a step   *)
(* of its own and the statements of two requests interleave.  The          *)
(* registration requests are sent by anonymous users.                      *)

Running(p, step, c) == pc' = [pc EXCEPT ![p] = [step |-> step, church |-> c]]
Finished(p) == pc' = [pc EXCEPT ![p] = NotRunning]

\* ChurchSignupSerializer.create, line 95: the email check
signup_check(p, c) ==
    /\ pc[p] = NotRunning
    /\ c \notin churches
    /\ Running(p, "signup_church", c)
    /\ UNCHANGED <<gate_vars, tenant_vars>>
    /\ UNCHANGED <<roster_vars, order_vars>>

\* line 99: Church.objects.create; email is unique, a second row with the
\* same email raises IntegrityError and the view answers 400
signup_create_church(p) ==
    /\ pc[p].step = "signup_church"
    /\ IF pc[p].church \in churches
       THEN Finished(p) /\ UNCHANGED churches
       ELSE /\ churches' = churches \cup {pc[p].church}
            /\ Running(p, "signup_subscription", pc[p].church)
    /\ UNCHANGED <<today, subscriptions, classes, stage, request, gate, response>>
    /\ UNCHANGED tenant_vars
    /\ UNCHANGED <<roster_vars, order_vars>>

\* lines 113-120: Subscription.objects.create
signup_create_subscription(p) ==
    /\ pc[p].step = "signup_subscription"
    /\ LET row == SignupSubscription(pc[p].church, today) IN
        IF InsertAllowed(subscriptions, row)
        THEN subscriptions' = subscriptions \cup {row}
        ELSE UNCHANGED subscriptions
    /\ Finished(p)
    /\ UNCHANGED <<today, churches, classes, stage, request, gate, response>>
    /\ UNCHANGED tenant_vars
    /\ UNCHANGED <<roster_vars, order_vars>>

\* a create-subscription POST of a user of church c passes process_view
create_gate(p, c) ==
    /\ pc[p] = NotRunning
    /\ c \in churches
    /\ process_view([method |-> "POST", path |-> SubscriptionCreatePath,
                     user |-> "user_" \o c, plan |-> NoPlan, church |-> NoChurch],
                    subscriptions, today) = None
    /\ Running(p, "create_check", c)
    /\ UNCHANGED <<gate_vars, tenant_vars>>
    /\ UNCHANGED <<roster_vars, order_vars>>

\* create_subscription, lines 1797-1804: Subscription.objects.get
create_check(p) ==
    /\ pc[p].step = "create_check"
    /\ IF SubscriptionsOf(subscriptions, pc[p].church) # {}
       THEN Finished(p)
       ELSE Running(p, "create_insert", pc[p].church)
    /\ UNCHANGED <<gate_vars, tenant_vars>>
    /\ UNCHANGED <<roster_vars, order_vars>>

\* create_subscription, lines 1805-1819: serializer.save()
create_insert(p) ==
    /\ pc[p].step = "create_insert"
    /\ LET row == CreateSubscriptionRow(pc[p].church, today) IN
        IF InsertAllowed(subscriptions, row)
        THEN subscriptions' = subscriptions \cup {row}
        ELSE UNCHANGED subscriptions
    /\ Finished(p)
    /\ UNCHANGED <<today, churches, classes, stage, request, gate, response>>
    /\ UNCHANGED tenant_vars
    /\ UNCHANGED <<roster_vars, order_vars>>

\* SubscriptionAdmin add form: a row for a church, saved in one statement
AdminAddSubscription(c, period_end) ==
    /\ stage = "idle"
    /\ c \in churches
    /\ LET row == SubscriptionRow(c, "monthly", "active", period_end,
                                  period_end, NoDate) IN
        /\ InsertAllowed(subscriptions, row)
        /\ subscriptions' = subscriptions \cup {row}
    /\ UNCHANGED <<today, churches, classes, stage, request, gate, response>>
    /\ UNCHANGED <<pc, tenant_vars>>
    /\ UNCHANGED <<roster_vars, order_vars>>

NextInterleaved ==
    \/ \E p \in Procs, c \in Churches : signup_check(p, c)
    \/ \E p \in Procs : signup_create_church(p)
    \/ \E p \in Procs : signup_create_subscription(p)
    \/ \E p \in Procs, c \in Churches : create_gate(p, c)
    \/ \E p \in Procs : create_check(p)
    \/ \E p \in Procs : create_insert(p)
    \/ Tick
    \/ \E c \in Churches : AdminAddChurch(c)
    \/ \E c \in Churches, d \in 0..MaxDay : AdminAddSubscription(c, d)
    \/ \E c \in Churches : AdminDeleteSubscription(c)

SpecInterleaved == Init /\ [][NextInterleaved]_vars

---------------------------------------------------------------------------
(* The users table: CustomUser.save() and CustomUser.delete() *)

UserRow(c, role, active) == [church |-> c, role |-> role, is_active |-> active]

\* variant of other_superintendents: the is_active filter left out
other_superintendents_AnyStatus(us, u) ==
    { v \in UserIds \ {u} :
        /\ us[v] # NoUser
        /\ us[v].church = us[u].church
        /\ us[v].role = "superintendent" }

\* CustomUser.delete, lines 114-118: the other active superintendents of
\* the user's church
other_superintendents(us, u) ==
    { v \in UserIds \ {u} :
        /\ us[v] # NoUser
        /\ us[v].church = us[u].church
        /\ us[v].role = "superintendent"
        /\ us[v].is_active }

\* CustomUser.save() of a new superintendent or teacher: these roles must
\* belong to a church; is_active defaults to True
CustomUser_create(u, c, role) ==
    /\ users[u] = NoUser
    /\ pc = [p \in Procs |-> NotRunning]
    /\ users' = [users EXCEPT ![u] = UserRow(c, role, TRUE)]
    /\ last_delete' = NoDelete
    /\ UNCHANGED <<gate_vars, pc, attendances, offerings>>
    /\ UNCHANGED <<roster_vars, order_vars>>

\* CustomUserAdmin change form: the is_active flag
AdminSetActive(u, active) ==
    /\ users[u] # NoUser
    /\ pc = [p \in Procs |-> NotRunning]
    /\ users[u].is_active # active
    /\ users' = [users EXCEPT ![u].is_active = active]
    /\ last_delete' = NoDelete
    /\ UNCHANGED <<gate_vars, pc, attendances, offerings>>
    /\ UNCHANGED <<roster_vars, order_vars>>

\* CustomUser.delete(): raises ValidationError for the last active
\* superintendent of a church; otherwise the row is deleted, and with it
\* (on_delete=CASCADE) the attendances it marked and the offerings it recorded
CustomUser_delete(u) ==
    /\ users[u] # NoUser
    /\ pc = [p \in Procs |-> NotRunning]
    /\ IF /\ users[u].role = "superintendent"
          /\ other_superintendents(users, u) = {}
       THEN /\ last_delete' = [user |-> u, raised |-> TRUE]
            /\ UNCHANGED <<users, attendances, offerings>>
       ELSE /\ last_delete' = [user |-> u, raised |-> FALSE]
            /\ users' = [users EXCEPT ![u] = NoUser]
            /\ attendances' = {a \in attendances : a.marked_by # u}
            /\ offerings' = {o \in offerings : o.recorded_by # u}
    /\ UNCHANGED <<gate_vars, pc>>
    /\ UNCHANGED <<roster_vars, order_vars>>

NextUsers ==
    \/ \E u \in UserIds, c \in ChurchIds, role \in {"superintendent", "teacher"} :
          CustomUser_create(u, c, role)
    \/ \E u \in UserIds, active \in BOOLEAN : AdminSetActive(u, active)
    \/ \E u \in UserIds : CustomUser_delete(u)

SpecUsers == Init /\ [][NextUsers]_vars

---------------------------------------------------------------------------
(* Attendance and offerings of two churches.  Church A and church B each   *)
(* have a teacher, a class and a member of that class; neither has a       *)
(* subscription row, so process_view lets every request through.           *)

ClassIds == {"classA", "classB"}
\* ActionUnitClass.church; classA2 is a second class of church A
class_church(cl) == IF cl \in {"classA", "classA2"} THEN "A" ELSE "B"

MemberIds == {"memberA", "memberB"}
\* ClassMember.action_unit_class
member_class(m) == IF m = "memberA" THEN "classA" ELSE "classB"

InitTenancy ==
    /\ today = 0
    /\ churches = {}
    /\ subscriptions = {}
    /\ classes = [c \in Churches |-> 0]
    /\ stage = "idle"
    /\ request = NoRequest
    /\ gate = None
    /\ response = NoResponse
    /\ PcInit
    /\ users = [u \in UserIds |->
                  IF u = "u1" THEN UserRow("A", "teacher", TRUE)
                  ELSE IF u = "u2" THEN UserRow("B", "teacher", TRUE)
                  ELSE NoUser]
    /\ last_delete = NoDelete
    /\ attendances = {}
    /\ offerings = {}
    /\ RosterInit
    /\ OrderInit

\* IsAuthenticated: the request carries an active user
Authenticated(u) == users[u] # NoUser /\ users[u].is_active

\* mark_attendance with one attendance item: the row of (class_member, date)
\* is updated if it exists and created otherwise
mark_attendance(u, m, date, is_present, absence_reason) ==
    /\ Authenticated(u)
    /\ LET existing == {a \in attendances : a.class_member = m /\ a.date = date}
           row == [class_member |-> m, date |-> date, is_present |-> is_present,
                   absence_reason |-> absence_reason, marked_by |-> u]
       IN attendances' = (attendances \ existing) \cup {row}
    /\ UNCHANGED <<gate_vars, pc, users, last_delete, offerings>>
    /\ UNCHANGED <<roster_vars, order_vars>>

\* offerings_list_create POST, OfferingCreateSerializer.create:
\* action_unit_class is any class id, recorded_by the requesting user
offerings_list_create(u, cl, amount, date) ==
    /\ Authenticated(u)
    /\ Cardinality(offerings) < MaxOfferings
    /\ offerings' = offerings \cup
          {[id |-> Cardinality(offerings) + 1, action_unit_class |-> cl,
            amount |-> amount, date |-> date, recorded_by |-> u]}
    /\ UNCHANGED <<gate_vars, pc, users, last_delete, attendances>>
    /\ UNCHANGED <<roster_vars, order_vars>>

NextTenancy ==
    \/ \E u \in UserIds, m \in MemberIds, is_present \in BOOLEAN,
          absence_reason \in {"None", "sick"} :
          mark_attendance(u, m, today, is_present, absence_reason)
    \/ \E u \in UserIds, cl \in ClassIds :
          offerings_list_create(u, cl, 10, today)

SpecTenancy == InitTenancy /\ [][NextTenancy]_vars

---------------------------------------------------------------------------
(* Teacher assignments.  Church A has the teachers u1 and u2 and the       *)
(* classes classA and classA2; church B has the teacher u3 and classB.     *)
(* The three assignment endpoints are open to every authenticated user.    *)

RosterClassIds == {"classA", "classA2", "classB"}

InitRoster ==
    /\ today = 0
    /\ churches = {}
    /\ subscriptions = {}
    /\ classes = [c \in Churches |-> 0]
    /\ stage = "idle"
    /\ request = NoRequest
    /\ gate = None
    /\ response = NoResponse
    /\ PcInit
    /\ users = [u \in UserIds |->
                  IF u = "u3" THEN UserRow("B", "teacher", TRUE)
                  ELSE UserRow("A", "teacher", TRUE)]
    /\ last_delete = NoDelete
    /\ attendances = {}
    /\ offerings = {}
    /\ RosterInit
    /\ OrderInit

ClassTeacherRow(cl, t, active) ==
    [action_unit_class |-> cl, teacher |-> t, is_active |-> active]

\* INSERT into class_teachers: unique_together (action_unit_class, teacher)
ClassTeacherInsertAllowed(rows, cl, t) ==
    ~ \E r \in rows : r.action_unit_class = cl /\ r.teacher = t

\* QuerySet.update(is_active=False) on the selected rows
Deactivated(rows, selected) ==
    (rows \ selected) \cup {[r EXCEPT !.is_active = FALSE] : r \in selected}

\* AssignTeacherSerializer.validate and TeacherAssignmentSerializer.validate:
\* the teacher and the class belong to the requesting user's church
AssignmentValid(requester, t, cl) ==
    /\ users[t] # NoUser
    /\ users[t].church = users[requester].church
    /\ users[t].role = "teacher"
    /\ class_church(cl) = users[requester].church

\* ClassTeacher.objects.create after the rows `kept` were left by the
\* updates.  A pair that already has a row (active or not) raises
\* IntegrityError and the request ends 500; the updates made before it stay
\* (autocommit) or are rolled back (ATOMIC_REQUESTS), as the settings say
CreateAssignment(requester, t, cl, kept) ==
    IF ClassTeacherInsertAllowed(kept, cl, t)
    THEN /\ class_teachers' = kept \cup {ClassTeacherRow(cl, t, TRUE)}
         /\ response' = ViewResponse(200, "assigned")
    ELSE /\ class_teachers' \in {kept, class_teachers}
         /\ response' = ViewResponse(500, "IntegrityError")

\* assign_teacher: every assignment of the class is deactivated, whoever the
\* teacher; the teacher's other assignments are left alone
assign_teacher(requester, t, cl) ==
    /\ Authenticated(requester)
    /\ IF ~AssignmentValid(requester, t, cl)
       THEN /\ response' = ViewResponse(400, "validation")
            /\ UNCHANGED class_teachers
       ELSE CreateAssignment(requester, t, cl,
                Deactivated(class_teachers,
                    {r \in class_teachers : r.action_unit_class = cl}))
    /\ UNCHANGED <<today, churches, subscriptions, classes, stage, request, gate>>
    /\ UNCHANGED <<pc, tenant_vars, officers, order_vars>>

\* TeacherAssignmentSerializer.create: the active assignments of the
\* teacher, then those of the class, are deactivated
TeacherAssignment_create(requester, t, cl) ==
    IF ~AssignmentValid(requester, t, cl)
    THEN /\ response' = ViewResponse(400, "validation")
         /\ UNCHANGED class_teachers
    ELSE CreateAssignment(requester, t, cl,
             Deactivated(class_teachers,
                 {r \in class_teachers :
                     (r.teacher = t \/ r.action_unit_class = cl) /\ r.is_active}))

assign_teacher_to_class(requester, t, cl) ==
    /\ Authenticated(requester)
    /\ TeacherAssignment_create(requester, t, cl)
    /\ UNCHANGED <<today, churches, subscriptions, classes, stage, request, gate>>
    /\ UNCHANGED <<pc, tenant_vars, officers, order_vars>>

reassign_teacher(requester, t, cl) ==
    /\ Authenticated(requester)
    /\ TeacherAssignment_create(requester, t, cl)
    /\ UNCHANGED <<today, churches, subscriptions, classes, stage, request, gate>>
    /\ UNCHANGED <<pc, tenant_vars, officers, order_vars>>

NextRoster ==
    \/ \E requester \in UserIds, t \in UserIds, cl \in RosterClassIds :
          assign_teacher(requester, t, cl)
    \/ \E requester \in UserIds, t \in UserIds, cl \in RosterClassIds :
          assign_teacher_to_class(requester, t, cl)
    \/ \E requester \in UserIds, t \in UserIds, cl \in RosterClassIds :
          reassign_teacher(requester, t, cl)

SpecRoster == InitRoster /\ [][NextRoster]_vars

---------------------------------------------------------------------------
(* Quarterly books and book orders.  Church A has the teachers u1 (the     *)
(* teacher of classA) and u2, and two quarterly books; one quarter of one  *)
(* year, so classA has at most one order.  Each request carries at most    *)
(* one order item.                                                         *)

BookIds == {"b1", "b2"}
BookPrices == {2, 3}
Quantities == {1, 2}
\* the order ids a request may name: the first order and one that is absent
OrderIdInputs == 1..2

\* order_items of a request body: none, or one item
ItemInputs ==
    {<<>>} \cup {<<[quarterly_book |-> b, quantity |-> q]>> : b \in BookIds, q \in Quantities}

QuarterlyBookRow(b, c, price) == [id |-> b, church |-> c, price |-> price]

BookOrderRow(id, cl, status, total, by, submitted) ==
    [id |-> id, action_unit_class |-> cl, status |-> status, total_amount |-> total,
     submitted_by |-> by, submitted_date |-> submitted]

\* OrderItem.save(): total_price is recomputed on every save
OrderItem_save(item) == [item EXCEPT !.total_price = item.quantity * item.unit_price]

OrderItemRow(o, b, quantity, unit_price) ==
    OrderItem_save([book_order |-> o, quarterly_book |-> b, quantity |-> quantity,
                    unit_price |-> unit_price, total_price |-> 0])

RECURSIVE SumTotalPrice(_)
\* aggregate(total=Sum('total_price'))['total'] or 0
SumTotalPrice(items) ==
    IF items = {} THEN 0
    ELSE LET item == CHOOSE i \in items : TRUE
         IN item.total_price + SumTotalPrice(items \ {item})

\* BookOrder.update_total_amount on order o, the items being `items`
update_total_amount(orders, items, o) ==
    {IF order.id = o
     THEN [order EXCEPT !.total_amount =
              SumTotalPrice({i \in items : i.book_order = o})]
     ELSE order : order \in orders}

InitOrders ==
    /\ today = 0
    /\ churches = {}
    /\ subscriptions = {}
    /\ classes = [c \in Churches |-> 0]
    /\ stage = "idle"
    /\ request = NoRequest
    /\ gate = None
    /\ response = NoResponse
    /\ PcInit
    /\ users = [u \in UserIds |->
                  IF u = "u3" THEN NoUser ELSE UserRow("A", "teacher", TRUE)]
    /\ last_delete = NoDelete
    /\ attendances = {}
    /\ offerings = {}
    /\ officers = {}
    /\ class_teachers = {ClassTeacherRow("classA", "u1", TRUE)}
    /\ quarterly_books = {QuarterlyBookRow("b1", "A", 2), QuarterlyBookRow("b2", "A", 3)}
    /\ book_orders = {}
    /\ order_items = {}

\* the request of a user to one of the order endpoints
OrderRequest(method, path, u) ==
    [method |-> method, path |-> path, user |-> u, plan |-> NoPlan, church |-> NoChurch]

BookDetailPath(b) == <<"api", "quarterly-books", b>>
BookOrdersPath == <<"api", "book-orders">>
BookOrderDetailPath(o) == <<"api", "book-orders", o>>
SubmitBookOrderPath(o) == <<"api", "book-orders", o, "submit">>

\* the item of a request applied to order o: the item of that book gets the
\* quantity (and, with refresh_price, the book's current price); a missing
\* item is created at the book's current price
ItemsAfter(items, o, input, refresh_price) ==
    IF input = <<>> THEN items
    ELSE LET b == input[1].quarterly_book
             price == (CHOOSE book \in quarterly_books : book.id = b).price
             existing == {i \in items : i.book_order = o /\ i.quarterly_book = b}
         IN IF existing = {}
            THEN items \cup {OrderItemRow(o, b, input[1].quantity, price)}
            ELSE (items \ existing) \cup
                 {OrderItem_save([i EXCEPT !.quantity = input[1].quantity,
                                           !.unit_price = IF refresh_price THEN price ELSE @])
                    : i \in existing}

\* the book an item names is missing
BookMissing(input) ==
    input # <<>> /\ ~ \E book \in quarterly_books : book.id = input[1].quarterly_book

\* quarterly_book_detail PUT (a new price) and DELETE: the order items of a
\* deleted book go with it (on_delete=CASCADE); no order is touched
quarterly_book_detail(u, b, method, price) ==
    /\ Authenticated(u)
    /\ request' = OrderRequest(method, BookDetailPath(b), u)
    /\ LET found == {book \in quarterly_books :
                        book.id = b /\ book.church = users[u].church} IN
        IF found = {}
        THEN /\ response' = ViewResponse(404, "Book not found")
             /\ UNCHANGED <<quarterly_books, order_items>>
        ELSE IF method = "PUT"
        THEN /\ response' = ViewResponse(200, "ok")
             /\ quarterly_books' = (quarterly_books \ found) \cup
                    {[book EXCEPT !.price = price] : book \in found}
             /\ UNCHANGED order_items
        ELSE /\ response' = ViewResponse(204, "deleted")
             /\ quarterly_books' = quarterly_books \ found
             /\ order_items' = {i \in order_items : i.quarterly_book # b}
    /\ UNCHANGED book_orders
    /\ UNCHANGED <<today, churches, subscriptions, classes, stage, gate>>
    /\ UNCHANGED <<pc, tenant_vars, roster_vars>>

\* book_orders_list_create POST, BookOrderCreateSerializer: an item naming a
\* missing book fails validation.  For a class that has its order the
\* serializer's unique-together validation answers 400, or create() takes
\* its update branch
book_orders_list_create(u, cl, input) ==
    /\ Authenticated(u)
    /\ request' = OrderRequest("POST", BookOrdersPath, u)
    /\ LET existing == {order \in book_orders : order.action_unit_class = cl}
           o == IF existing = {} THEN Cardinality(book_orders) + 1
                ELSE (CHOOSE order \in existing : TRUE).id
           items == ItemsAfter(order_items, o, input, TRUE)
       IN
        IF BookMissing(input)
        THEN /\ response' = ViewResponse(400, "validation")
             /\ UNCHANGED <<book_orders, order_items>>
        ELSE IF existing = {}
        THEN /\ response' = ViewResponse(201, "created")
             /\ order_items' = items
             /\ book_orders' = update_total_amount(
                    book_orders \cup {BookOrderRow(o, cl, "draft", 0, u, NoDate)},
                    items, o)
        ELSE \/ /\ response' = ViewResponse(400, "validation")
                /\ UNCHANGED <<book_orders, order_items>>
             \/ /\ response' = ViewResponse(201, "created")
                /\ order_items' = items
                /\ book_orders' = update_total_amount(book_orders, items, o)
    /\ UNCHANGED quarterly_books
    /\ UNCHANGED <<today, churches, subscriptions, classes, stage, gate>>
    /\ UNCHANGED <<pc, tenant_vars, roster_vars>>

\* BookOrder.objects.get(id=o, action_unit_class__teacher_assignments__teacher=u)
OrdersOfTeacher(o, u) ==
    {order \in book_orders :
        /\ order.id = o
        /\ \E r \in class_teachers :
              r.action_unit_class = order.action_unit_class /\ r.teacher = u}

\* book_order_detail PUT: the order's status is not looked at
book_order_detail(u, o, input) ==
    /\ Authenticated(u)
    /\ request' = OrderRequest("PUT", BookOrderDetailPath(o), u)
    /\ LET items == ItemsAfter(order_items, o, input, FALSE)
           has_item == input # <<>> /\ \E i \in order_items :
                          i.book_order = o /\ i.quarterly_book = input[1].quarterly_book
       IN
        IF OrdersOfTeacher(o, u) = {}
        THEN /\ response' = ViewResponse(404, "Order not found")
             /\ UNCHANGED <<book_orders, order_items>>
        ELSE IF BookMissing(input) /\ ~has_item
        THEN /\ response' = ViewResponse(500, "DoesNotExist")
             /\ UNCHANGED <<book_orders, order_items>>
        ELSE /\ response' = ViewResponse(200, "ok")
             /\ order_items' = items
             /\ book_orders' = update_total_amount(book_orders, items, o)
    /\ UNCHANGED quarterly_books
    /\ UNCHANGED <<today, churches, subscriptions, classes, stage, gate>>
    /\ UNCHANGED <<pc, tenant_vars, roster_vars>>

\* variant of submit_book_order: the status filter left out of the lookup
\* and the date stamped on first submission only
submit_book_order_AnyStatus(u, o) ==
    /\ Authenticated(u)
    /\ request' = OrderRequest("POST", SubmitBookOrderPath(o), u)
    /\ LET found == OrdersOfTeacher(o, u) IN
        IF found = {}
        THEN /\ response' = ViewResponse(404, "Draft order not found")
             /\ UNCHANGED book_orders
        ELSE /\ response' = ViewResponse(200, "submitted")
             /\ book_orders' = (book_orders \ found) \cup
                    {[order EXCEPT !.status = "submitted"] : order \in found}
    /\ UNCHANGED <<quarterly_books, order_items>>
    /\ UNCHANGED <<today, churches, subscriptions, classes, stage, gate>>
    /\ UNCHANGED <<pc, tenant_vars, roster_vars>>

\* submit_book_order: only a draft order of the teacher's class is found
submit_book_order(u, o) ==
    /\ Authenticated(u)
    /\ request' = OrderRequest("POST", SubmitBookOrderPath(o), u)
    /\ LET found == {order \in OrdersOfTeacher(o, u) : order.status = "draft"} IN
        IF found = {}
        THEN /\ response' = ViewResponse(404, "Draft order not found")
             /\ UNCHANGED book_orders
        ELSE /\ response' = ViewResponse(200, "submitted")
             /\ book_orders' = (book_orders \ found) \cup
                    {[order EXCEPT !.status = "submitted",
                                   !.submitted_date = today] : order \in found}
    /\ UNCHANGED <<quarterly_books, order_items>>
    /\ UNCHANGED <<today, churches, subscriptions, classes, stage, gate>>
    /\ UNCHANGED <<pc, tenant_vars, roster_vars>>

NextOrders ==
    \/ \E u \in UserIds, b \in BookIds, method \in {"PUT", "DELETE"}, price \in BookPrices :
          quarterly_book_detail(u, b, method, price)
    \/ \E u \in UserIds, input \in ItemInputs : book_orders_list_create(u, "classA", input)
    \/ \E u \in UserIds, o \in OrderIdInputs, input \in ItemInputs :
          book_order_detail(u, o, input)
    \/ \E u \in UserIds, o \in OrderIdInputs : submit_book_order(u, o)

SpecOrders == InitOrders /\ [][NextOrders]_vars

---------------------------------------------------------------------------
(* Two CustomUser.delete() calls at once.  delete() reads the other active *)
(* superintendents and then deletes the row; nothing locks the rows        *)
(* between the two statements, so the statements of two calls interleave.  *)
(* Church A starts with exactly two active superintendents, u1 and u2.     *)

InitDeleteRace ==
    /\ today = 0
    /\ churches = {}
    /\ subscriptions = {}
    /\ classes = [c \in Churches |-> 0]
    /\ stage = "idle"
    /\ request = NoRequest
    /\ gate = None
    /\ response = NoResponse
    /\ PcInit
    /\ users \in {[u \in UserIds |-> IF u = "u3" THEN third
                                    ELSE UserRow("A", "superintendent", TRUE)] :
                    third \in {NoUser, UserRow("A", "teacher", TRUE),
                               UserRow("A", "superintendent", FALSE)}}
    /\ last_delete = NoDelete
    /\ attendances = {}
    /\ offerings = {}
    /\ RosterInit
    /\ OrderInit

\* lines 113-121: the role test and the other_superintendents query
delete_check(p, u) ==
    /\ pc[p] = NotRunning
    /\ users[u] # NoUser
    /\ IF /\ users[u].role = "superintendent"
          /\ other_superintendents(users, u) = {}
       THEN /\ last_delete' = [user |-> u, raised |-> TRUE]
            /\ UNCHANGED pc
       ELSE /\ pc' = [pc EXCEPT ![p] = [step |-> "delete_row",
                                        church |-> users[u].church, user |-> u]]
            /\ UNCHANGED last_delete
    /\ UNCHANGED <<gate_vars, users, attendances, offerings, roster_vars, order_vars>>

\* line 123: super().delete()
delete_row(p) ==
    /\ pc[p].step = "delete_row"
    /\ users' = [users EXCEPT ![pc[p].user] = NoUser]
    /\ last_delete' = [user |-> pc[p].user, raised |-> FALSE]
    /\ attendances' = {a \in attendances : a.marked_by # pc[p].user}
    /\ offerings' = {o \in offerings : o.recorded_by # pc[p].user}
    /\ Finished(p)
    /\ UNCHANGED <<gate_vars, roster_vars, order_vars>>

NextDeleteRace ==
    \/ \E p \in Procs, u \in UserIds : delete_check(p, u)
    \/ \E p \in Procs : delete_row(p)

SpecDeleteRace == InitDeleteRace /\ [][NextDeleteRace]_vars

---------------------------------------------------------------------------
(* Officers.  Church A has the superintendent u1 and the teacher u2; u3 is *)
(* a phone number no user has yet.  A phone number names one user.         *)

InitOfficers ==
    /\ today = 0
    /\ churches = {}
    /\ subscriptions = {}
    /\ classes = [c \in Churches |-> 0]
    /\ stage = "idle"
    /\ request = NoRequest
    /\ gate = None
    /\ response = NoResponse
    /\ PcInit
    /\ users = [u \in UserIds |->
                  IF u = "u1" THEN UserRow("A", "superintendent", TRUE)
                  ELSE IF u = "u2" THEN UserRow("A", "teacher", TRUE)
                  ELSE NoUser]
    /\ last_delete = NoDelete
    /\ attendances = {}
    /\ offerings = {}
    /\ RosterInit
    /\ OrderInit

\* officers_management POST: the user with the phone number is made an
\* officer with role 'member', whatever role it had; an unknown phone number
\* creates a member of the requesting user's church (a body without a name
\* fails validation)
officers_management(requester, phone, named) ==
    /\ Authenticated(requester)
    /\ IF users[phone] # NoUser
       THEN IF users[phone].church # users[requester].church
            THEN /\ response' = ViewResponse(400, "User belongs to a different church")
                 /\ UNCHANGED <<users, officers>>
            ELSE /\ response' = ViewResponse(201, "promoted")
                 /\ users' = [users EXCEPT ![phone].role = "member"]
                 /\ officers' = officers \cup {phone}
       ELSE IF ~named
            THEN /\ response' = ViewResponse(400, "validation")
                 /\ UNCHANGED <<users, officers>>
            ELSE /\ response' = ViewResponse(201, "created")
                 /\ users' = [users EXCEPT ![phone] =
                                 UserRow(users[requester].church, "member", TRUE)]
                 /\ officers' = officers \cup {phone}
    /\ UNCHANGED <<today, churches, subscriptions, classes, stage, request, gate>>
    /\ UNCHANGED <<pc, last_delete, attendances, offerings, class_teachers, order_vars>>

\* officer_detail PUT (is_active, when the body has it: the body is <<>> or
\* <<is_active>>) and DELETE (the officer flag is cleared) on an officer of
\* the requesting user's church
officer_detail(requester, officer, method, body) ==
    /\ Authenticated(requester)
    /\ IF ~(/\ users[officer] # NoUser
            /\ users[officer].church = users[requester].church
            /\ officer \in officers)
       THEN /\ response' = ViewResponse(404, "Officer not found")
            /\ UNCHANGED <<users, officers>>
       ELSE IF method = "PUT"
       THEN /\ response' = ViewResponse(200, "ok")
            /\ users' = [users EXCEPT ![officer].is_active =
                            IF body = <<>> THEN @ ELSE body[1]]
            /\ UNCHANGED officers
       ELSE /\ response' = ViewResponse(204, "demoted")
            /\ officers' = officers \ {officer}
            /\ UNCHANGED users
    /\ UNCHANGED <<today, churches, subscriptions, classes, stage, request, gate>>
    /\ UNCHANGED <<pc, last_delete, attendances, offerings, class_teachers, order_vars>>

NextOfficers ==
    \/ \E requester \in UserIds, phone \in UserIds, named \in BOOLEAN :
          officers_management(requester, phone, named)
    \/ \E requester \in UserIds, officer \in UserIds, method \in {"PUT", "DELETE"},
          body \in {<<>>, <<TRUE>>, <<FALSE>>} :
          officer_detail(requester, officer, method, body)

SpecOfficers == InitOfficers /\ [][NextOfficers]_vars

TypeOK ==
    /\ today \in 0..MaxDay
    /\ churches \subseteq Churches
    /\ \A s \in subscriptions :
          /\ s.church \in churches
          /\ s.status \in STATUS_CHOICES
    /\ \A c \in Churches : classes[c] \in 0..MaxClasses
    /\ stage \in {"idle", "view", "done"}

---------------------------------------------------------------------------
(* Vocabulary of the properties *)

\* process_view has run on the request and the database is still as
\* process_view read it: the request waits for its view, or was answered by
\* the gate
Gated == stage = "view" \/ (stage = "done" /\ response.by = "gate")

\* the gate let the request through
GateAllows == stage = "view" /\ gate = None

\* the gate answered the request with 402 and the given code
GateDenies(code) ==
    /\ stage = "done"
    /\ response = [status |-> 402, code |-> code, by |-> "gate"]

\* the request is made by an authenticated user of a church
ByChurchUser == church_of(request.user) \in Churches

RequestChurchHasSubscription ==
    /\ ByChurchUser
    /\ SubscriptionsOf(subscriptions, church_of(request.user)) # {}

\* the subscription of the requesting user's church
RequestSubscription == SubscriptionOf(subscriptions, church_of(request.user))

\* a non-GET request of a church's user to a path the gate does not skip,
\* the church having a subscription
GatedWrite ==
    /\ Gated
    /\ request.method # "GET"
    /\ ~IsBypassedPath(request.path)
    /\ RequestChurchHasSubscription

---------------------------------------------------------------------------
(* C1: a non-GET request of a church whose subscription is active or        *)
(* trialing with current_period_end before today is denied with 402 and    *)
(* code SUBSCRIPTION_EXPIRED.                                              *)
C1_LapsedPeriodDenied ==
    (/\ GatedWrite
     /\ RequestSubscription.status \in {"active", "trialing"}
     /\ RequestSubscription.current_period_end < today)
    => GateDenies("SUBSCRIPTION_EXPIRED")

C1_Witness ==
    /\ GatedWrite
    /\ request.method = "POST"
    /\ request.path = ClassesPath
    /\ RequestSubscription.status = "active"
    /\ RequestSubscription.current_period_end = today - 1
    /\ response.code = "SUBSCRIPTION_EXPIRED"

(* C2: a non-GET request of a church whose subscription is canceled or     *)
(* unpaid is denied with 402 and code SUBSCRIPTION_TERMINATED, whatever    *)
(* current_period_end is.                                                  *)
C2_TerminatedDenied ==
    (/\ GatedWrite
     /\ RequestSubscription.status \in {"canceled", "unpaid"})
    => GateDenies("SUBSCRIPTION_TERMINATED")

\* a canceled subscription whose period has lapsed: still TERMINATED
C2_Witness ==
    /\ GatedWrite
    /\ request.method = "POST"
    /\ RequestSubscription.status = "canceled"
    /\ RequestSubscription.current_period_end < today
    /\ response.code = "SUBSCRIPTION_TERMINATED"

(* C3: a non-GET request of a church whose subscription is past_due is     *)
(* denied with 402 and code PAYMENT_PAST_DUE, also when the period has     *)
(* lapsed.                                                                 *)
C3_PastDueDenied ==
    (/\ GatedWrite
     /\ RequestSubscription.status = "past_due")
    => GateDenies("PAYMENT_PAST_DUE")

C3_Witness ==
    /\ GatedWrite
    /\ request.method = "PUT"
    /\ RequestSubscription.status = "past_due"
    /\ RequestSubscription.current_period_end < today
    /\ response.code = "PAYMENT_PAST_DUE"

(* C4: a non-GET request of a church whose subscription is active or       *)
(* trialing with current_period_end today or later passes the gate.        *)
C4_CurrentPeriodAllowed ==
    (/\ GatedWrite
     /\ RequestSubscription.status \in {"active", "trialing"}
     /\ RequestSubscription.current_period_end >= today)
    => GateAllows

\* the boundary day: current_period_end = today
C4_Witness ==
    /\ GatedWrite
    /\ request.method = "POST"
    /\ request.path = ClassesPath
    /\ RequestSubscription.status = "trialing"
    /\ RequestSubscription.current_period_end = today
    /\ GateAllows

(* C5: every request (GET or not) of a user whose church has no            *)
(* subscription row passes the gate.                                       *)
C5_NoSubscriptionAllowed ==
    (/\ Gated
     /\ ByChurchUser
     /\ SubscriptionsOf(subscriptions, church_of(request.user)) = {})
    => GateAllows

C5_Witness ==
    /\ GateAllows
    /\ request.method = "POST"
    /\ request.path = ClassesPath
    /\ ByChurchUser
    /\ SubscriptionsOf(subscriptions, church_of(request.user)) = {}

(* C6: a GET request passes the gate for every path, user and              *)
(* subscription state.                                                     *)
C6_GetAllowed ==
    (Gated /\ request.method = "GET") => GateAllows

C6_Witness ==
    /\ GateAllows
    /\ request.method = "GET"
    /\ request.path = ClassesPath
    /\ RequestChurchHasSubscription
    /\ RequestSubscription.status = "unpaid"
    /\ RequestSubscription.current_period_end < today

(* C7: a church whose writes are blocked because its subscription is       *)
(* past_due, or because its period has lapsed, can recover through the     *)
(* API: its verify-payment POST is processed (it passes the gate and       *)
(* reaches verify_payment).                                                *)
C7_BlockedChurchCanVerifyPayment ==
    (/\ GatedWrite
     /\ request.method = "POST"
     /\ request.path = VerifyPaymentPath
     /\ \/ RequestSubscription.status = "past_due"
        \/ /\ RequestSubscription.status \in {"active", "trialing"}
           /\ RequestSubscription.current_period_end < today)
    => GateAllows

(* C8: a verify-payment POST handled for a church that has a subscription  *)
(* sets status active, current_period_end to today + 30 / 90 / 365 days    *)
(* for plan monthly / quarterly / annual, and records the plan.            *)
C8_VerifyPaymentSetsPeriod ==
    (/\ stage = "done"
     /\ response.by = "view"
     /\ request.method = "POST"
     /\ request.path = VerifyPaymentPath
     /\ request.plan \in {"monthly", "quarterly", "annual"}
     /\ RequestChurchHasSubscription)
    => /\ response.status = 200
       /\ RequestSubscription.status = "active"
       /\ RequestSubscription.plan = request.plan
       /\ RequestSubscription.current_period_end =
            today + (CASE request.plan = "monthly" -> 30
                       [] request.plan = "quarterly" -> 90
                       [] request.plan = "annual" -> 365)

\* a quarterly payment verified for a church that was on its free trial
C8_Witness ==
    /\ stage = "done"
    /\ response = ViewResponse(200, "ok")
    /\ request.path = VerifyPaymentPath
    /\ request.plan = "quarterly"
    /\ RequestChurchHasSubscription
    /\ RequestSubscription.plan = "quarterly"
    /\ RequestSubscription.trial_end_date = SignupTrialDays
    /\ RequestSubscription.current_period_end = today + 90
    /\ today = 1

(* C9: a request to a path under /api/auth/, to /api/church/register/, to  *)
(* the token refresh or token verify endpoint, or to a path under /static/ *)
(* or /admin/ is allowed by the gate, for every method and subscription    *)
(* state (stated here for anonymous users and users of a church).          *)
C9_AuthEndpointsBypassGate ==
    (/\ Gated
     /\ request.user = "anon" \/ ByChurchUser
     /\ request.path \in {AuthLogin, TokenRefresh, ChurchRegister, TokenVerify,
                          StaticFile, AdminConsole})
    => GateAllows

(* C10: a non-GET request with no authenticated user, or whose user has no *)
(* church, is allowed by the gate: it is neither denied nor fails.         *)
C10_NoUserOrNoChurchAllowed ==
    (/\ Gated
     /\ request.method # "GET"
     /\ ~is_authenticated(request.user) \/ church_of(request.user) = NoChurch)
    => GateAllows

(* C11: a subscription whose status is none of canceled, unpaid, past_due, *)
(* active, trialing and whose period has not lapsed is denied with 402 and *)
(* code SUBSCRIPTION_ACCESS_DENIED on a non-GET request; it is never       *)
(* allowed.                                                                *)
C11_DefaultDeny ==
    (/\ GatedWrite
     /\ RequestSubscription.status \notin STATUS_CHOICES
     /\ RequestSubscription.current_period_end >= today)
    => GateDenies("SUBSCRIPTION_ACCESS_DENIED")

C11_Witness ==
    /\ GatedWrite
    /\ request.method = "POST"
    /\ request.path = ClassesPath
    /\ RequestSubscription.status = UndeclaredStatus
    /\ RequestSubscription.current_period_end = today
    /\ GateDenies("SUBSCRIPTION_ACCESS_DENIED")

(* C12: every outcome of the gate other than allow is a 402 whose code is  *)
(* one of SUBSCRIPTION_TERMINATED, PAYMENT_PAST_DUE, SUBSCRIPTION_EXPIRED, *)
(* SUBSCRIPTION_ACCESS_DENIED.                                             *)
C12_DenialsAre402 ==
    (Gated /\ gate # None)
    => /\ gate.status = 402
       /\ gate.code \in {"SUBSCRIPTION_TERMINATED", "PAYMENT_PAST_DUE",
                         "SUBSCRIPTION_EXPIRED", "SUBSCRIPTION_ACCESS_DENIED"}

(* C13: process_view changes no stored row, whether it allows or denies,   *)
(* and a request it denies leaves every row unchanged: the step that       *)
(* answers the denied request changes nothing either.                      *)
StoredRowsUnchanged == UNCHANGED <<churches, subscriptions, classes>>

C13_GateHasNoSideEffects ==
    [][/\ (stage = "idle" /\ stage' # "idle") => StoredRowsUnchanged
       /\ (stage = "done" /\ response.by = "gate") => StoredRowsUnchanged]_vars

\* a denied request of a church that has a subscription is being answered
C13_Witness ==
    /\ stage = "done"
    /\ response.by = "gate"
    /\ response.status = 402
    /\ request.path = SubscriptionCreatePath
    /\ RequestChurchHasSubscription

(* C19: for a subscription whose status is one of the five declared        *)
(* statuses, whatever its dates, process_view never answers                *)
(* SUBSCRIPTION_ACCESS_DENIED.                                             *)
C19_DefaultDenyUnreachable ==
    (/\ Gated
     /\ RequestChurchHasSubscription
     /\ RequestSubscription.status \in STATUS_CHOICES)
    => gate.code # "SUBSCRIPTION_ACCESS_DENIED"

C19_Witness ==
    /\ GatedWrite
    /\ request.method = "PUT"
    /\ request.path = ClassesPath
    /\ RequestSubscription.status = "trialing"
    /\ RequestSubscription.plan = "free_trial"
    /\ RequestSubscription.current_period_end > today
    /\ gate.code # "SUBSCRIPTION_ACCESS_DENIED"

(* C20: the decision of the gate depends on the subscription only through  *)
(* its status and current_period_end: a row that differs from the stored   *)
(* one in plan, trial_end_date or grace_period_end gets the same decision  *)
(* and code.  A past_due subscription inside its grace period is denied; a *)
(* trialing one past trial_end_date but within its period is allowed.      *)
C20_DecisionIgnoresOtherFields ==
    /\ (Gated /\ RequestChurchHasSubscription) =>
          \A plan \in PLAN_CHOICES \cup {"weekly"},
             trial_end \in 0..MaxDay,
             grace_end \in {NoDate} \cup 0..MaxDay :
             process_view(request,
                          {[RequestSubscription EXCEPT
                               !.plan = plan,
                               !.trial_end_date = trial_end,
                               !.grace_period_end = grace_end]},
                          today) = gate
    /\ (/\ GatedWrite
        /\ RequestSubscription.status = "past_due"
        /\ RequestSubscription.grace_period_end >= today)
       => GateDenies("PAYMENT_PAST_DUE")
    /\ (/\ GatedWrite
        /\ RequestSubscription.status = "trialing"
        /\ RequestSubscription.trial_end_date < today
        /\ RequestSubscription.current_period_end >= today)
       => GateAllows

\* a past_due subscription inside its grace period
C20_Witness ==
    /\ GatedWrite
    /\ request.method = "POST"
    /\ RequestSubscription.status = "past_due"
    /\ RequestSubscription.grace_period_end > today
    /\ RequestSubscription.current_period_end >= today
    /\ GateDenies("PAYMENT_PAST_DUE")

(* C15: a create-subscription POST of a user whose church has no           *)
(* subscription is answered 201 and leaves the church with one             *)
(* subscription of its own: plan free_trial, status trialing,              *)
(* current_period_end equal to trial_end_date.  (The view answers 400      *)
(* 'Subscription already exists' exactly when the church had a row.)       *)
C15_CreateSubscriptionSucceeds ==
    (/\ stage = "done"
     /\ response.by = "view"
     /\ request.method = "POST"
     /\ request.path = SubscriptionCreatePath
     /\ ByChurchUser
     /\ response.code # "Subscription already exists for this church")
    => /\ response.status = 201
       /\ Cardinality(SubscriptionsOf(subscriptions, church_of(request.user))) = 1
       /\ RequestSubscription.plan = "free_trial"
       /\ RequestSubscription.status = "trialing"
       /\ RequestSubscription.current_period_end = RequestSubscription.trial_end_date

(* C16: once the first non-GET tenant-scoped request that the gate allowed *)
(* for a church without a subscription has completed, the church has a     *)
(* subscription row.                                                       *)
C16_FirstWriteCreatesSubscription ==
    (/\ stage = "done"
     /\ response.by = "view"
     /\ response.status \in {200, 201}
     /\ request.method # "GET"
     /\ request.path \in {ClassesPath, SubscriptionCreatePath,
                          InitiatePaymentPath, VerifyPaymentPath}
     /\ ByChurchUser)
    => SubscriptionsOf(subscriptions, church_of(request.user)) # {}

(* C14: after any sequence and interleaving of church_signup and           *)
(* create_subscription requests every church has 0 or 1 subscription rows, *)
(* and every row belongs to a church.                                      *)
C14_AtMostOneSubscription ==
    /\ \A c \in Churches : Cardinality(SubscriptionsOf(subscriptions, c)) <= 1
    /\ \A row \in subscriptions : row.church \in churches

\* two create_subscription requests have both passed the existence check
\* and the church has got a row in the meantime
C14_Witness ==
    /\ \A p \in Procs : pc[p] = [step |-> "create_insert", church |-> "c1"]
    /\ SubscriptionsOf(subscriptions, "c1") # {}

(* C17: CustomUser.delete on a superintendent deletes the row only if      *)
(* another active superintendent of the same church exists; on the last    *)
(* active superintendent of a church it raises ValidationError and leaves  *)
(* the user row and every other row unchanged.                             *)
C17_LastSuperintendentKept ==
    [][last_delete' # NoDelete =>
        LET u == last_delete'.user
            last == /\ users[u].role = "superintendent"
                    /\ ~ \E v \in UserIds \ {u} :
                           /\ users[v] # NoUser
                           /\ users[v].church = users[u].church
                           /\ users[v].role = "superintendent"
                           /\ users[v].is_active
        IN /\ last_delete'.raised <=> last
           /\ last_delete'.raised =>
                 UNCHANGED <<users, attendances, offerings, gate_vars>>
           /\ ~last_delete'.raised => users' = [users EXCEPT ![u] = NoUser]
      ]_vars

\* a delete refused although the church has a second superintendent: that
\* one is not active
C17_Witness ==
    /\ last_delete # NoDelete
    /\ last_delete.raised
    /\ users[last_delete.user].role = "superintendent"
    /\ \E v \in UserIds \ {last_delete.user} :
          /\ users[v] = UserRow(users[last_delete.user].church, "superintendent", FALSE)

(* C18: no non-GET request of a user of one church creates or modifies a   *)
(* row of another church: every attendance is marked by a user of the      *)
(* member's church and every offering recorded by a user of the class's    *)
(* church (the tables start empty, every row was written by a request).    *)
C18_TenantIsolation ==
    /\ \A a \in attendances :
          class_church(member_class(a.class_member)) = users[a.marked_by].church
    /\ \A o \in offerings :
          class_church(o.action_unit_class) = users[o.recorded_by].church

(* C22: after church_signup on day d, while the subscription is the row    *)
(* the signup created, non-GET requests of the church's users pass the     *)
(* gate on every day up to d + 30 and are denied with SUBSCRIPTION_EXPIRED *)
(* on every day after d + 30; once denied, the request is denied on every  *)
(* later day too.                                                          *)
C22_TrialWindow ==
    \A d \in 0..TrialHorizon :
        (/\ GatedWrite
         /\ RequestSubscription = SignupSubscription(church_of(request.user), d))
        => /\ today <= d + 30 => GateAllows
           /\ today > d + 30 => GateDenies("SUBSCRIPTION_EXPIRED")
           /\ ~GateAllows =>
                \A later \in today..TrialHorizon :
                    process_view(request, subscriptions, later) # None

\* the first day after the trial of a church that signed up on day 0
C22_Witness ==
    /\ GatedWrite
    /\ request.method = "POST"
    /\ request.path = ClassesPath
    /\ RequestSubscription = SignupSubscription(church_of(request.user), 0)
    /\ today = 31
    /\ GateDenies("SUBSCRIPTION_EXPIRED")

(* C23: under the requests of the API alone every subscription's status is *)
(* trialing or active.                                                     *)
C23_StatusTrialingOrActive ==
    \A sub \in subscriptions : sub.status \in {"trialing", "active"}

\* a payment verified with a plan that is not a paid plan
C23_Witness ==
    /\ stage = "done"
    /\ response = ViewResponse(200, "ok")
    /\ request.path = VerifyPaymentPath
    /\ request.plan = "weekly"
    /\ RequestChurchHasSubscription
    /\ RequestSubscription.status = "active"

(* C24: under the requests of the API alone the plan stored in every       *)
(* subscription is one of PLAN_CHOICES.                                    *)
C24_StoredPlanDeclared ==
    \A sub \in subscriptions : sub.plan \in PLAN_CHOICES

(* C25: initiate_payment changes no stored row, for every plan value and   *)
(* every subscription, and answers 400 to a plan that is not monthly,      *)
(* quarterly or annual.                                                    *)
C25_InitiatePaymentReadOnly ==
    [][(stage = "view" /\ request.path = InitiatePaymentPath)
        => /\ UNCHANGED <<churches, subscriptions, classes>>
           /\ (/\ is_authenticated(request.user)
               /\ request.method = "POST"
               /\ request.plan \notin {"monthly", "quarterly", "annual"})
              => response'.status = 400
           /\ (/\ is_authenticated(request.user)
               /\ request.method = "POST"
               /\ request.plan \in {"monthly", "quarterly", "annual"})
              => response'.status = 200
      ]_vars

\* a valid plan accepted for a church on its free trial: the row is as it was
C25_Witness ==
    /\ stage = "done"
    /\ response = ViewResponse(200, "ok")
    /\ request.path = InitiatePaymentPath
    /\ request.plan = "monthly"
    /\ RequestChurchHasSubscription
    /\ RequestSubscription.plan = "free_trial"
    /\ RequestSubscription.status = "trialing"

(* C26: for a subscription with a declared status, is_active of            *)
(* SubscriptionSerializer is true exactly when a non-GET request of the    *)
(* church's user to a path the gate does not skip passes the gate that day.*)
C26_IsActiveAgreesWithGate ==
    (/\ GatedWrite
     /\ RequestSubscription.status \in STATUS_CHOICES)
    => (get_is_active(RequestSubscription, today) <=> GateAllows)

\* the last day of the period: reported active, and allowed
C26_Witness ==
    /\ GatedWrite
    /\ request.method = "POST"
    /\ RequestSubscription.status = "active"
    /\ RequestSubscription.current_period_end = today
    /\ get_is_active(RequestSubscription, today)
    /\ GateAllows

\* the active ClassTeacher rows
ActiveAssignments == {r \in class_teachers : r.is_active}

(* C27: after any sequence of teacher-assignment requests every class has  *)
(* at most one active ClassTeacher row and every teacher has at most one   *)
(* active ClassTeacher row.                                                *)
C27_OneActiveAssignment ==
    /\ \A cl \in RosterClassIds :
          Cardinality({r \in ActiveAssignments : r.action_unit_class = cl}) <= 1
    /\ \A t \in UserIds :
          Cardinality({r \in ActiveAssignments : r.teacher = t}) <= 1

(* C21: submit_book_order moves an order from draft to submitted and sets  *)
(* submitted_date; a submit request for an order that is not in draft      *)
(* (or is not there) is answered 404 and changes no row; no request to the *)
(* order endpoints changes the status of a submitted order, and no other   *)
(* request changes a status at all; every submitted order has a            *)
(* submitted_date.                                                         *)
C21_SubmitOnlyFromDraft ==
    [][/\ \A order \in book_orders :
            \E after \in book_orders' :
                /\ after.id = order.id
                /\ order.status = "submitted" => after.status = "submitted"
                /\ after.status # order.status =>
                      /\ request'.path = SubmitBookOrderPath(order.id)
                      /\ order.status = "draft"
                      /\ after.status = "submitted"
                      /\ after.submitted_date = today
                      /\ response'.status = 200
       /\ \A o \in OrderIdInputs :
            (/\ request'.path = SubmitBookOrderPath(o)
             /\ ~ \E order \in book_orders : order.id = o /\ order.status = "draft")
            => /\ response'.status = 404
               /\ UNCHANGED <<book_orders, order_items, quarterly_books>>
       /\ \A after \in book_orders' :
            after.status = "submitted" => after.submitted_date # NoDate
      ]_vars

\* a second submit of a submitted order was answered 404
C21_Witness ==
    /\ request.path = SubmitBookOrderPath(1)
    /\ response = ViewResponse(404, "Draft order not found")
    /\ \E order \in book_orders :
          /\ order.id = 1
          /\ order.status = "submitted"
          /\ order.submitted_date = today
          /\ order.submitted_by = request.user

(* C28: every BookOrder's total_amount is the sum of total_price over its  *)
(* order items, and every order item's total_price is quantity times       *)
(* unit_price.                                                             *)
C28_TotalsAgree ==
    /\ \A order \in book_orders :
          order.total_amount =
              SumTotalPrice({i \in order_items : i.book_order = order.id})
    /\ \A i \in order_items : i.total_price = i.quantity * i.unit_price

\* the active superintendents of church c
ActiveSuperintendents(c) ==
    {u \in UserIds : users[u] = UserRow(c, "superintendent", TRUE)}

(* C29: with two active superintendents in a church and CustomUser.delete  *)
(* run on both at once, at most one delete succeeds: the church keeps a    *)
(* superintendent.                                                         *)
C29_ConcurrentDeletesKeepOne ==
    \E u \in UserIds :
        users[u] # NoUser /\ users[u].church = "A" /\ users[u].role = "superintendent"

(* C30: a church that has an active superintendent keeps one after every   *)
(* request to officers_management POST and officer_detail PUT / DELETE.    *)
C30_ActiveSuperintendentKept ==
    ActiveSuperintendents("A") # {}

=============================================================================
